---- MODULE Spec2Model ----
(***************************************************************************)
(* Model of scripts/analyze-excel-formulas.py: one linear scan of a        *)
(* workbook that classifies every cell of every sheet as formula or        *)
(* literal, prints the keyword-matching values and the formulas with their *)
(* cached values, and closes the workbook.                                 *)
(*                                                                         *)
(* Text is a sequence of one-character strings so that lower(),            *)
(* startswith() and the substring test are computed, not assumed.          *)
(***************************************************************************)
EXTENDS Naturals, Sequences, FiniteSets, TLC

VARIABLES
    wbk,          \* the workbook file: its shape and the content of every cell
    pc,           \* position of the script
    sheetIdx,     \* position of the loop over wb.sheetnames
    cur,          \* position of the two cell loops: <<row, column>>
    formulas,     \* dict formulas, as its items in insertion order
    values,       \* dict values, as its items in insertion order
    out,          \* the lines printed so far
    openHandles,  \* workbook objects loaded and not closed: 0 is wb, j is the j-th wb_data
    loads,        \* number of load_workbook(data_only=True) calls of this run
    visited,      \* addresses of the cells the cell loops have reached in this sheet
    taken,        \* for each visited cell, the branches of the classification it took
    rec,          \* <<sheet, address>> of every assignment into formulas or values
    rerun,        \* TRUE in the second run of the script on the same file
    prevOut,      \* the lines printed by the first run
    prevPc        \* how the first run ended

vars == <<wbk, pc, sheetIdx, cur, formulas, values, out, openHandles, loads,
          visited, taken, rec, rerun, prevOut, prevPc>>

\* Workbooks of at most MaxCells cells, at most MaxFilled of them holding
\* anything, are explored.
MaxCells == 4
MaxFilled == 2

----------------------------------------------------------------------------
\* Python values a cell can hold.

None == [t |-> "none", n |-> 0, s |-> <<>>]
Num(k) == [t |-> "num", n |-> k, s |-> <<>>]
Str(chars) == [t |-> "str", n |-> 0, s |-> chars]

UpperLetters ==
    <<"A","B","C","D","E","F","G","H","I","J","K","L","M",
      "N","O","P","Q","R","S","T","U","V","W","X","Y","Z">>

LowerLetters ==
    <<"a","b","c","d","e","f","g","h","i","j","k","l","m",
      "n","o","p","q","r","s","t","u","v","w","x","y","z">>

DigitChars == <<"0","1","2","3","4","5","6","7","8","9">>

\* str.lower() on one character.
LowerChar(ch) ==
    IF \E i \in 1..26 : UpperLetters[i] = ch
    THEN LowerLetters[CHOOSE i \in 1..26 : UpperLetters[i] = ch]
    ELSE ch

LowerNoOp(chars) == chars

\* val.lower()
Lower(chars) == [i \in 1..Len(chars) |-> LowerChar(chars[i])]

\* chars.startswith(prefix)
StartsWith(chars, prefix) ==
    /\ Len(chars) >= Len(prefix)
    /\ SubSeq(chars, 1, Len(prefix)) = prefix

\* keyword in text
Contains(sub, chars) ==
    \E i \in 0..Len(chars) :
        /\ i + Len(sub) <= Len(chars)
        /\ SubSeq(chars, i + 1, i + Len(sub)) = sub

\* The keyword list of the print loop.
Keywords ==
    { <<"t","a","n">>, <<"d","i","a","m","e","t","e","r">>, <<"i","d">>,
      <<"w","a","l","l">>, <<"w","t">>, <<"c","i","r","c">>, <<"a","r","e","a">>,
      <<"g","r","i","d">>, <<"h","o","u","r">>,
      <<"s","e","g","m","e","n","t">>, <<"c","l","o","c","k">>,
      <<"s","h","e","l","l">>, <<"d","o","m","e">>, <<"p","a","u","t">>,
      <<"p","e","c">>, <<"t","o","f","d">>, <<"l","e","n","g","t","h">>,
      <<"a","x","i","s">>, <<"a","c","c","e","s","s">>, <<"s","c","a","n">>,
      <<"a","n","a","l","y","s","i","s">>, <<"r","e","p","o","r","t">>,
      <<"t","o","t","a","l">> }

\* isinstance(val, str) and any(keyword in val.lower() for keyword in [...])
IsKeyValue(val) ==
    /\ val.t = "str"
    /\ \E kw \in Keywords : Contains(kw, Lower(val.s))

\* Decimal digits of a natural number, as str() and an f-string render it.
RECURSIVE Digits(_)
Digits(k) ==
    IF k < 10 THEN <<DigitChars[k + 1]>>
    ELSE Digits(k \div 10) \o <<DigitChars[(k % 10) + 1]>>

\* The text print() and an f-string show for a value.
Fmt(val) ==
    CASE val.t = "none" -> <<"N","o","n","e">>
      [] val.t = "num"  -> Digits(val.n)
      [] OTHER          -> val.s

\* cell_addr = f"{cell.column_letter}{cell.row}"
Addr(row, col) == <<UpperLetters[col]>> \o Digits(row)

\* The number a run of decimal digits denotes.
RECURSIVE ParseInt(_)
ParseInt(chars) ==
    IF chars = <<>> THEN 0
    ELSE ParseInt(SubSeq(chars, 1, Len(chars) - 1)) * 10
         + ((CHOOSE i \in 1..10 : DigitChars[i] = chars[Len(chars)]) - 1)

\* The cell a worksheet's [] operator finds for an address string.
CoordOf(addr) ==
    [row |-> ParseInt(Tail(addr)),
     col |-> CHOOSE i \in 1..26 : UpperLetters[i] = addr[1]]

\* The name of the i-th sheet of wb.sheetnames.
SheetName(i) == <<"S">> \o Digits(i)

\* wb[sheet_name]: the position of the sheet with that name.
SheetByName(name) == CHOOSE i \in 1..wbk.n : SheetName(i) = name

----------------------------------------------------------------------------
\* Python dicts: the items in insertion order.

DictKeys(d) == {d[i][1] : i \in 1..Len(d)}

DictGet(d, k) == d[CHOOSE i \in 1..Len(d) : d[i][1] = k][2]

\* d[k] = v: a new key goes last, an old key keeps its place.
DictSet(d, k, v) ==
    IF k \in DictKeys(d)
    THEN [i \in 1..Len(d) |-> IF d[i][1] = k THEN <<k, v>> ELSE d[i]]
    ELSE Append(d, <<k, v>>)

----------------------------------------------------------------------------
\* The workbook file.

\* A cell of the file: what the formula view shows (value) and what the
\* data-only view shows (cached).  A cell without a formula shows the same
\* content in both views; a formula cell shows its cached result, or None
\* when the file holds none.
LiteralContents ==
    { None, Str(<<>>), Num(12), Str(<<"T","a","n">>), Str(<<"o","k">>) }

FormulaContents == { Str(<<"=","I","D">>) }

CachedResults == { None, Num(24), Str(<<"W","t">>) }

FileCells ==
    { [value |-> v, cached |-> v] : v \in LiteralContents }
    \cup { [value |-> f, cached |-> c] : f \in FormulaContents, c \in CachedResults }

Shapes ==
    { sh \in [n : 1..MaxCells, rows : 1..MaxCells, cols : 1..MaxCells] :
        sh.n * sh.rows * sh.cols <= MaxCells }

Filled(f) == {x \in DOMAIN f : f[x].value # None}

Workbooks ==
    UNION { { [n |-> sh.n, rows |-> sh.rows, cols |-> sh.cols, cells |-> f] :
                f \in { g \in [(1..sh.n) \X (1..sh.rows) \X (1..sh.cols) -> FileCells] :
                           Cardinality(Filled(g)) <= MaxFilled } } :
            sh \in Shapes }

\* cell.value of the view loaded with data_only=False
FormulaView(i, row, col) == wbk.cells[<<i, row, col>>].value

\* cell.value of the view loaded with data_only=True
DataView(i, row, col) == wbk.cells[<<i, row, col>>].cached

CalculatedFromFormulaView(name, addr) ==
    FormulaView(SheetByName(name), CoordOf(addr).row, CoordOf(addr).col)

\* wb_data[sheet_name][cell_addr].value
CalculatedValue(name, addr) ==
    DataView(SheetByName(name), CoordOf(addr).row, CoordOf(addr).col)

----------------------------------------------------------------------------
\* The script.

Line(tag, addr, text) == [tag |-> tag, addr |-> addr, text |-> text]

RECURSIVE JoinNames(_)
JoinNames(k) == IF k = 0 THEN <<>> ELSE JoinNames(k - 1) \o SheetName(k) \o <<",">>

FreshRun ==
    /\ pc = "start"
    /\ sheetIdx = 0
    /\ cur = <<0, 0>>
    /\ formulas = <<>>
    /\ values = <<>>
    /\ out = <<>>
    /\ openHandles = {}
    /\ loads = 0
    /\ visited = <<>>
    /\ taken = <<>>
    /\ rec = {}

Init ==
    /\ wbk \in Workbooks
    /\ FreshRun
    /\ rerun = FALSE
    /\ prevOut = <<>>
    /\ prevPc = "none"

\* wb = openpyxl.load_workbook(file_path, data_only=False)
LoadWorkbook ==
    /\ pc = "start"
    /\ \E readable \in BOOLEAN :
         IF readable
         THEN /\ pc' = "header"
              /\ openHandles' = openHandles \cup {0}
         ELSE /\ pc' = "failed"
              /\ UNCHANGED openHandles
    /\ UNCHANGED <<wbk, sheetIdx, cur, formulas, values, out, loads,
                   visited, taken, rec, rerun, prevOut, prevPc>>

\* print("Sheets in workbook:", wb.sheetnames) and the ruler
PrintHeader ==
    /\ pc = "header"
    /\ out' = out \o << Line("SHEETS", <<>>, JoinNames(wbk.n)), Line("RULE", <<>>, <<>>) >>
    /\ pc' = "sheet"
    /\ UNCHANGED <<wbk, sheetIdx, cur, formulas, values, openHandles, loads,
                   visited, taken, rec, rerun, prevOut, prevPc>>

StartSheetKeepingDicts ==
    /\ pc = "sheet"
    /\ sheetIdx < wbk.n
    /\ sheetIdx' = sheetIdx + 1
    /\ out' = out \o << Line("SHEET", <<>>, SheetName(sheetIdx + 1)),
                        Line("DASH", <<>>, <<>>) >>
    /\ cur' = <<1, 1>>
    /\ visited' = <<>>
    /\ taken' = <<>>
    /\ pc' = "cells"
    /\ UNCHANGED <<wbk, formulas, values, openHandles, loads, rec,
                   rerun, prevOut, prevPc>>

\* The head of the sheet loop: the next sheet name, the sheet's title and two
\* empty dicts.
StartSheet ==
    /\ pc = "sheet"
    /\ sheetIdx < wbk.n
    /\ sheetIdx' = sheetIdx + 1
    /\ out' = out \o << Line("SHEET", <<>>, SheetName(sheetIdx + 1)),
                        Line("DASH", <<>>, <<>>) >>
    /\ formulas' = <<>>
    /\ values' = <<>>
    /\ cur' = <<1, 1>>
    /\ visited' = <<>>
    /\ taken' = <<>>
    /\ pc' = "cells"
    /\ UNCHANGED <<wbk, openHandles, loads, rec, rerun, prevOut, prevPc>>

ColumnMajorNext(row, col) ==
    IF row < wbk.rows THEN <<row + 1, col>>
    ELSE IF col < wbk.cols THEN <<1, col + 1>>
    ELSE <<wbk.rows + 1, 1>>

\* The cell after <<row, col>> in "for row in sheet.iter_rows(): for cell in row".
NextCell(row, col) ==
    IF col < wbk.cols THEN <<row, col + 1>> ELSE <<row + 1, 1>>

\* Both cell loops are exhausted.
CellsDone(c) == c[1] > wbk.rows

\* cell.value is not None
IsPresent(val) == val.t # "none"

IsAnyStr(val) == val.t = "str"

\* isinstance(cell.value, str) and cell.value.startswith('=')
IsFormula(val) == val.t = "str" /\ StartsWith(val.s, <<"=">>)

IsAnything(val) == TRUE

\* cell.value not in ['', None]
IsStored(val) == val # Str(<<>>) /\ val # None

\* The branches of the classification a cell value runs through.
Branches(val) ==
    IF ~IsPresent(val) THEN {}
    ELSE IF IsFormula(val) THEN {"formula"}
    ELSE IF IsStored(val) THEN {"literal"}
    ELSE {}

\* One iteration of the inner cell loop.
VisitCell ==
    /\ pc = "cells"
    /\ LET row  == cur[1]
           col  == cur[2]
           val  == FormulaView(sheetIdx, row, col)
           addr == Addr(row, col)
           name == SheetName(sheetIdx)
           br   == Branches(val)
           nxt  == NextCell(row, col)
           advance ==
               /\ cur' = nxt
               /\ pc' = IF CellsDone(nxt) THEN "keys" ELSE "cells"
               /\ visited' = Append(visited, addr)
               /\ taken' = Append(taken, br)
       IN
       \/ /\ br = {}
          /\ advance
          /\ UNCHANGED <<formulas, values, openHandles, loads, rec>>
       \/ /\ br = {"literal"}
          /\ values' = DictSet(values, addr, val)
          /\ rec' = rec \cup {<<sheetIdx, addr>>}
          /\ advance
          /\ UNCHANGED <<formulas, openHandles, loads>>
       \/ /\ "formula" \in br
          /\ formulas' = DictSet(formulas, addr, val)
          /\ \E readable \in BOOLEAN :
               IF readable
               THEN /\ loads' = loads + 1
                    /\ openHandles' = openHandles \cup {loads + 1}
                    /\ values' = DictSet(values, addr, CalculatedValue(name, addr))
                    /\ rec' = rec \cup {<<sheetIdx, addr>>}
                    /\ advance
               ELSE /\ pc' = "failed"
                    /\ UNCHANGED <<cur, values, openHandles, loads, visited, taken, rec>>
    /\ UNCHANGED <<wbk, sheetIdx, out, rerun, prevOut, prevPc>>

\* The lines of "for addr, val in values.items(): if ...: print(...)".
RECURSIVE KeyLines(_)
KeyLines(d) ==
    IF d = <<>> THEN <<>>
    ELSE (IF IsKeyValue(d[1][2])
          THEN << Line("KEY", d[1][1], Fmt(d[1][2])) >>
          ELSE <<>>) \o KeyLines(Tail(d))

\* The lines of "for addr, formula in formulas.items(): ...".
RECURSIVE FormulaLines(_, _)
FormulaLines(fs, vs) ==
    IF fs = <<>> THEN <<>>
    ELSE << Line("FORMULA", fs[1][1], Fmt(fs[1][2])) >>
         \o (IF fs[1][1] \in DictKeys(vs)
             THEN << Line("VALUE", fs[1][1], Fmt(DictGet(vs, fs[1][1]))) >>
             ELSE <<>>)
         \o FormulaLines(Tail(fs), vs)

\* The block printed from a container that keeps no order.
PrintKeyCellsUnordered ==
    /\ pc = "keys"
    /\ \E p \in Permutations(1..Len(KeyLines(values))) :
         out' = out \o << Line("KEYHDR", <<>>, <<>>) >>
                    \o [k \in 1..Len(KeyLines(values)) |-> KeyLines(values)[p[k]]]
    /\ pc' = "formulas"
    /\ UNCHANGED <<wbk, sheetIdx, cur, formulas, values, openHandles, loads,
                   visited, taken, rec, rerun, prevOut, prevPc>>

\* The "Key Input/Output cells" block.
PrintKeyCells ==
    /\ pc = "keys"
    /\ out' = out \o << Line("KEYHDR", <<>>, <<>>) >> \o KeyLines(values)
    /\ pc' = "formulas"
    /\ UNCHANGED <<wbk, sheetIdx, cur, formulas, values, openHandles, loads,
                   visited, taken, rec, rerun, prevOut, prevPc>>

\* The "Key Formulas" block and the ruler that ends the sheet.
PrintFormulas ==
    /\ pc = "formulas"
    /\ out' = out \o << Line("FHDR", <<>>, <<>>) >> \o FormulaLines(formulas, values)
                  \o << Line("RULE", <<>>, <<>>) >>
    /\ pc' = "sheet"
    /\ UNCHANGED <<wbk, sheetIdx, cur, formulas, values, openHandles, loads,
                   visited, taken, rec, rerun, prevOut, prevPc>>

\* wb.close()
CloseWorkbook ==
    /\ pc = "sheet"
    /\ sheetIdx = wbk.n
    /\ openHandles' = openHandles \ {0}
    /\ pc' = "done"
    /\ UNCHANGED <<wbk, sheetIdx, cur, formulas, values, out, loads,
                   visited, taken, rec, rerun, prevOut, prevPc>>

\* The script, having finished, is started a second time on the same file:
\* a new process, which inherits nothing but the file.
Rerun ==
    /\ pc = "done"
    /\ ~rerun
    /\ rerun' = TRUE
    /\ prevOut' = out
    /\ prevPc' = pc
    /\ pc' = "start"
    /\ sheetIdx' = 0
    /\ cur' = <<0, 0>>
    /\ formulas' = <<>>
    /\ values' = <<>>
    /\ out' = <<>>
    /\ openHandles' = {}
    /\ loads' = 0
    /\ visited' = <<>>
    /\ taken' = <<>>
    /\ rec' = {}
    /\ UNCHANGED wbk

Step ==
    \/ LoadWorkbook
    \/ PrintHeader
    \/ StartSheet
    \/ VisitCell
    \/ PrintKeyCells
    \/ PrintFormulas
    \/ CloseWorkbook

Next == Step \/ Rerun

Spec == Init /\ [][Next]_vars

\* One run of the script.  A sequential script runs each statement it has
\* reached, hence the weak fairness of Step.
FairSpec == Init /\ [][Step]_vars /\ WF_vars(Step)

----------------------------------------------------------------------------
\* What the file holds and what was printed, read without the script's own
\* operators.

Empty(val) == val = None \/ val = Str(<<>>)

\* Text that starts with the formula marker.
FormulaText(val) == val.t = "str" /\ Len(val.s) > 0 /\ val.s[1] = "="

\* Text whose lowercase form contains a keyword.
KeywordText(val) ==
    /\ val.t = "str"
    /\ \E kw \in Keywords : \E i \in 0..Len(val.s) :
         /\ i + Len(kw) <= Len(val.s)
         /\ \A j \in 1..Len(kw) : LowerChar(val.s[i + j]) = kw[j]

Content(i, row, col) == wbk.cells[<<i, row, col>>].value
Cached(i, row, col) == wbk.cells[<<i, row, col>>].cached

\* The k-th cell of a sheet in row-major order.
RowOf(k) == ((k - 1) \div wbk.cols) + 1
ColOf(k) == ((k - 1) % wbk.cols) + 1
CellCount == wbk.rows * wbk.cols
AddrOf(k) == <<UpperLetters[ColOf(k)]>> \o Digits(RowOf(k))
InSheet(addr) == \E k \in 1..CellCount : AddrOf(k) = addr
IndexOf(addr) == CHOOSE k \in 1..CellCount : AddrOf(k) = addr
ContentAt(i, addr) == Content(i, RowOf(IndexOf(addr)), ColOf(IndexOf(addr)))
CachedAt(i, addr) == Cached(i, RowOf(IndexOf(addr)), ColOf(IndexOf(addr)))

\* The value a cell contributes to the report: a formula's cached result, any
\* other content itself.
Reported(i, addr) ==
    IF FormulaText(ContentAt(i, addr)) THEN CachedAt(i, addr) ELSE ContentAt(i, addr)

\* The lines printed for sheet i: from its title to the ruler that ends it.
TitleAt(i) ==
    CHOOSE k \in 1..Len(out) : out[k].tag = "SHEET" /\ out[k].text = SheetName(i)
Titled(i) ==
    \E k \in 1..Len(out) : out[k].tag = "SHEET" /\ out[k].text = SheetName(i)
Section(i) ==
    IF Titled(i)
    THEN LET first == TitleAt(i)
             rules == {k \in first..Len(out) : out[k].tag = "RULE"}
             last  == IF rules = {} THEN Len(out)
                      ELSE CHOOSE k \in rules : \A m \in rules : k <= m
         IN SubSeq(out, first, last)
    ELSE <<>>

IsKeyLine(l) == l.tag = "KEY"
IsFormulaLine(l) == l.tag = "FORMULA"
IsEntryLine(l) == l.tag \in {"FORMULA", "VALUE"}
IsTitleLine(l) == l.tag = "SHEET"
KeyBlockPrinted(i) == \E k \in 1..Len(Section(i)) : Section(i)[k].tag = "KEYHDR"
FormulaBlockPrinted(i) == \E k \in 1..Len(Section(i)) : Section(i)[k].tag = "FHDR"
KeyEntries(i) == SelectSeq(Section(i), IsKeyLine)
FormulaEntries(i) == SelectSeq(Section(i), IsEntryLine)

Listed(entries, addr) == \E k \in 1..Len(entries) : entries[k].addr = addr

\* The entries appear in the order of the cells, none twice.
InCellOrder(entries) ==
    /\ \A k \in 1..Len(entries) : InSheet(entries[k].addr)
    /\ \A k, m \in 1..Len(entries) :
         k < m => IndexOf(entries[k].addr) < IndexOf(entries[m].addr)

Scanning == pc \in {"cells", "keys", "formulas"}

----------------------------------------------------------------------------
\* C1 as stated: every cell whose textual content (literal text or the raw text
\* of a formula) contains a keyword in lowercase is in the keyword-matched list
\* of its sheet, formula cell or literal cell alike.
C1_TextualContentListed ==
    \A i \in 1..wbk.n : KeyBlockPrinted(i) =>
        \A k \in 1..CellCount :
            KeywordText(Content(i, RowOf(k), ColOf(k))) => Listed(KeyEntries(i), AddrOf(k))

\* C1 amended: every cell whose recorded value (the content of a literal cell,
\* the cached result of a formula cell) is text containing a keyword in
\* lowercase is in the keyword-matched list of its sheet, shown with that
\* value, formula cell or literal cell alike; a formula's raw text is not
\* tested.
C1_RecordedValueListed ==
    \A i \in 1..wbk.n : KeyBlockPrinted(i) =>
        LET keys == KeyEntries(i) IN
        \A k \in 1..CellCount :
            KeywordText(Reported(i, AddrOf(k))) =>
                \E e \in 1..Len(keys) :
                    /\ keys[e].addr = AddrOf(k)
                    /\ keys[e].text = Reported(i, AddrOf(k)).s

\* A finished scan that listed a literal cell and a formula cell.
C1_Witness ==
    /\ pc = "done"
    /\ \E k, m \in 1..CellCount :
         /\ FormulaText(Content(1, RowOf(k), ColOf(k)))
         /\ Listed(KeyEntries(1), AddrOf(k))
         /\ ~FormulaText(Content(1, RowOf(m), ColOf(m)))
         /\ Listed(KeyEntries(1), AddrOf(m))

\* C2: every address in the formulas map, the values map or a printed entry
\* belongs to a cell of the sheet whose content is neither None nor ''.
C2_OnlyNonEmptyCellsReported ==
    /\ Scanning =>
         \A addr \in DictKeys(formulas) \cup DictKeys(values) :
             InSheet(addr) /\ ~Empty(ContentAt(sheetIdx, addr))
    /\ \A i \in 1..wbk.n :
         LET sec == Section(i) IN
         \A k \in 1..Len(sec) :
             sec[k].tag \in {"KEY", "FORMULA", "VALUE"} =>
                 /\ InSheet(sec[k].addr)
                 /\ ~Empty(ContentAt(i, sec[k].addr))

\* A finished scan of a sheet with a None cell, a '' cell and a printed entry.
C2_Witness ==
    /\ pc = "done"
    /\ \E k, m \in 1..CellCount :
         /\ Content(1, RowOf(k), ColOf(k)) = None
         /\ Content(1, RowOf(m), ColOf(m)) = Str(<<>>)
    /\ Len(KeyEntries(1)) > 0

\* C3: every visited non-empty cell took exactly one branch: the formula branch
\* when its content is text starting with '=', the literal branch otherwise;
\* the formula branch is the one that fills the formulas map.
C3_ExactlyOneClassification ==
    Scanning =>
        \A k \in 1..Len(visited) :
            LET val == ContentAt(sheetIdx, visited[k]) IN
            /\ ~Empty(val) =>
                 taken[k] = {IF FormulaText(val) THEN "formula" ELSE "literal"}
            /\ Empty(val) => taken[k] = {}
            /\ Cardinality(taken[k]) <= 1
            /\ "formula" \in taken[k] <=> visited[k] \in DictKeys(formulas)
            /\ taken[k] # {} <=> visited[k] \in DictKeys(values)

\* A sheet in which a formula cell and a literal cell have been visited.
C3_Witness ==
    /\ Scanning
    /\ \E k, m \in 1..Len(taken) : taken[k] = {"formula"} /\ taken[m] = {"literal"}

\* The formula entries a sheet must print: for each formula cell in row-major
\* order its text, then the cached result of the same sheet and address.
RECURSIVE ExpectedFormulaEntries(_, _)
ExpectedFormulaEntries(i, k) ==
    IF k = 0 THEN <<>>
    ELSE ExpectedFormulaEntries(i, k - 1)
         \o (IF FormulaText(Content(i, RowOf(k), ColOf(k)))
             THEN << [tag |-> "FORMULA", addr |-> AddrOf(k),
                      text |-> Content(i, RowOf(k), ColOf(k)).s],
                     [tag |-> "VALUE", addr |-> AddrOf(k),
                      text |-> IF Cached(i, RowOf(k), ColOf(k)) = None
                               THEN <<"N","o","n","e">>
                               ELSE IF Cached(i, RowOf(k), ColOf(k)).t = "num"
                               THEN Digits(Cached(i, RowOf(k), ColOf(k)).n)
                               ELSE Cached(i, RowOf(k), ColOf(k)).s] >>
             ELSE <<>>)

\* C4: every formula cell is recorded with the cached result of the same sheet
\* and address, and printed with it; a missing cached result is recorded and
\* printed as None.
C4_FormulaPairedWithCachedValue ==
    /\ Scanning =>
         \A k \in 1..Len(visited) :
             FormulaText(ContentAt(sheetIdx, visited[k])) =>
                 /\ visited[k] \in DictKeys(formulas)
                 /\ DictGet(formulas, visited[k]) = ContentAt(sheetIdx, visited[k])
                 /\ visited[k] \in DictKeys(values)
                 /\ DictGet(values, visited[k]) = CachedAt(sheetIdx, visited[k])
    /\ \A i \in 1..wbk.n : FormulaBlockPrinted(i) =>
         FormulaEntries(i) = ExpectedFormulaEntries(i, CellCount)

\* A finished scan that printed a formula without a cached result after one
\* with a cached result.
C4_Witness ==
    /\ pc = "done"
    /\ \E k, m \in 1..Len(FormulaEntries(1)) :
         /\ k < m
         /\ FormulaEntries(1)[k].tag = "VALUE" /\ FormulaEntries(1)[k].text # <<"N","o","n","e">>
         /\ FormulaEntries(1)[m].tag = "VALUE" /\ FormulaEntries(1)[m].text = <<"N","o","n","e">>

\* C5 as stated: when the scan has ended, normally or by a failure, no workbook
\* handle it acquired is still open.
C5_HandlesClosedOnEveryExit ==
    pc \in {"done", "failed"} => openHandles = {}

\* C6 as stated: a scan that fails because the source cannot be opened has
\* printed nothing.
C6_NoOutputBeforeFailure ==
    pc = "failed" => out = <<>>

\* C7 as stated: a scan derives the values-only view at most once, and never
\* in a workbook without a formula cell.
C7_AtMostOneDerivation ==
    /\ loads <= 1
    /\ (\A x \in DOMAIN wbk.cells : ~FormulaText(wbk.cells[x].value)) => loads = 0

\* C8: the second run on the same file, once finished, has printed exactly
\* what the first run printed.
C8_SecondRunPrintsTheSame ==
    (rerun /\ pc = "done" /\ prevPc = "done") => out = prevOut

\* A finished second run whose report has two keyword entries and a formula.
C8_Witness ==
    /\ rerun
    /\ pc = "done"
    /\ Len(SelectSeq(out, IsKeyLine)) >= 2
    /\ Len(SelectSeq(out, IsFormulaLine)) >= 1

\* The safety half of C9: the sheets are titled in workbook order, the cells of
\* the current sheet are visited in row-major order, each once, and the
\* entries of both lists of every sheet are in that order; a sheet without
\* content has two empty lists.
C9_Order ==
    /\ SelectSeq(out, IsTitleLine)
         = [k \in 1..sheetIdx |-> [tag |-> "SHEET", addr |-> <<>>, text |-> SheetName(k)]]
    /\ Scanning =>
         /\ Len(visited) <= CellCount
         /\ visited = [k \in 1..Len(visited) |-> AddrOf(k)]
         /\ pc = "cells" => cur = <<RowOf(Len(visited) + 1), ColOf(Len(visited) + 1)>>
         /\ pc \in {"keys", "formulas"} => Len(visited) = CellCount
    /\ \A i \in 1..wbk.n :
         LET sec      == Section(i)
             keys     == SelectSeq(sec, IsKeyLine)
             entries  == SelectSeq(sec, IsEntryLine)
             keysDone == \E k \in 1..Len(sec) : sec[k].tag = "KEYHDR"
             allDone  == \E k \in 1..Len(sec) : sec[k].tag = "FHDR"
         IN
         /\ InCellOrder(keys)
         /\ InCellOrder(SelectSeq(sec, IsFormulaLine))
         /\ keysDone =>
              \A k \in 1..CellCount :
                  Listed(keys, AddrOf(k)) <=> KeywordText(Reported(i, AddrOf(k)))
         /\ allDone =>
              \A k \in 1..CellCount :
                  Listed(entries, AddrOf(k)) <=> FormulaText(Content(i, RowOf(k), ColOf(k)))
         /\ (allDone /\ \A k \in 1..CellCount : Empty(Content(i, RowOf(k), ColOf(k))))
              => (keys = <<>> /\ entries = <<>>)

Terminated == pc \in {"done", "failed"}

\* C9: the scan visits sheets and cells in order, emits the entries in that
\* order, and ends.
C9_OrderedAndTerminates == []C9_Order /\ <>Terminated

\* A finished scan of a sheet of two rows and two columns whose keyword list
\* has the cell of row 1, column 2 before the cell of row 2, column 1.
C9_Witness ==
    /\ pc = "done"
    /\ wbk.rows = 2 /\ wbk.cols = 2
    /\ Len(KeyEntries(1)) = 2
    /\ KeyEntries(1)[1].addr = <<"B", "1">>
    /\ KeyEntries(1)[2].addr = <<"A", "2">>

\* C10: while a sheet is scanned and printed, every address in its two maps
\* was assigned during the scan of that sheet and holds that sheet's value;
\* every keyword entry printed for a sheet shows that sheet's value.
C10_MapsHoldOnlyTheCurrentSheet ==
    /\ Scanning =>
         /\ \A addr \in DictKeys(formulas) \cup DictKeys(values) :
                <<sheetIdx, addr>> \in rec
         /\ \A k \in 1..Len(visited) :
                visited[k] \in DictKeys(values) =>
                    DictGet(values, visited[k]) = Reported(sheetIdx, visited[k])
         /\ pc \in {"keys", "formulas"} =>
                DictKeys(values) \subseteq {visited[k] : k \in 1..Len(visited)}
    /\ \A i \in 1..wbk.n :
         LET keys == KeyEntries(i) IN
         \A k \in 1..Len(keys) :
             /\ InSheet(keys[k].addr)
             /\ KeywordText(Reported(i, keys[k].addr))
             /\ keys[k].text = Reported(i, keys[k].addr).s

\* The second sheet is being printed; its first cell is empty where the first
\* sheet's first cell was recorded.
C10_Witness ==
    /\ pc = "formulas"
    /\ sheetIdx = 2
    /\ <<1, <<"A", "1">>>> \in rec
    /\ Content(2, 1, 1) = None
    /\ values # <<>>

====
